---------------------------- MODULE Spec2Model ----------------------------
(***************************************************************************)
(* Model of the wire-codec layer of huelib-rs: the modifier builders of    *)
(* light.rs, resource/config.rs and resource/sensor.rs, and the decoder of *)
(* the "new lights" scan result of light.rs.                               *)
(*                                                                         *)
(* An Option<T> slot is modelled as a set with at most one element: {} is  *)
(* None and {v} is Some(v).                                                *)
(***************************************************************************)
EXTENDS Integers, Sequences, FiniteSets, TLC

VARIABLES
    kind,       \* the modifier type the builder chain is of
    modifier,   \* the modifier value (self) the chain has built so far
    last,       \* the setter call that produced `modifier` (op = "new" at first)
    calls,      \* number of setter calls chained so far
    input,      \* decoders: the JSON input (an object's entries in encounter
                \* order, a single resource's members, or a token)
    pos,        \* decoders: number of entries consumed so far
    lights,     \* scan decoder: local `lights`
    last_scan,  \* scan decoder: local `last_scan` (Option<LastScan>)
    result,     \* decoders: the Result returned
    pc,         \* decoders: position in the decoder
    ty,         \* entity and enum decoders: the type decoded to
    entity,     \* entity decoder: the entity decoded, after any with_id
    map,        \* whitelist decoder: local `map` (HashMap<String, User>)
    users,      \* whitelist decoder: local `users`
    first,      \* whitelist decoder: the Result of an earlier decoding of `input`
    encoded     \* enum codec: the token the decoded variant serializes to

modVars  == <<kind, modifier, last, calls>>
scanVars == <<input, pos, lights, last_scan, result, pc>>
decVars  == <<ty, entity, map, users, first, encoded>>
vars     == <<kind, modifier, last, calls, input, pos, lights, last_scan, result, pc,
              ty, entity, map, users, first, encoded>>

\* Longest chain of setter calls explored.
MaxCalls == 2

----------------------------------------------------------------------------
(* Values *)

None == {}
Some(v) == {v}

\* Sample arguments of the unsigned types, with both ends of each range.
U8Values  == {0, 1, 255}
U16Values == {0, 1, 65535}

\* A cast to the 8-bit signed type in place of the 16-bit one.
AsI8(v) == ((v + 128) % 256) - 128

\* `value as i16`: the low 16 bits, read as two's complement.
AsI16(v) == ((v + 32768) % 65536) - 32768

\* `value as i32` of a u16: zero extension. Every u16 is below 2^31, so no
\* bit of the value is cut off.
AsI32(v) == IF v >= 0 /\ v <= 65535 THEN v ELSE -1

\* Unary minus on i16 / i32 (two's complement: the minimum is its own negation).
NegI16(x) == AsI16(0 - x)
NegI32(x) == IF x = -2147483647 - 1 THEN x ELSE 0 - x

\* An f32 is modelled as <<sign bit, magnitude>>; the magnitude counts tenths.
\* Unary minus on f32 flips the sign bit.
F32Neg(x) == <<1 - x[1], x[2]>>

\* Sample coordinate pairs: (0.1, 0.2) and (0.0, -0.3).
F32Pairs == { <<<<0, 1>>, <<0, 2>>>>, <<<<0, 0>>, <<1, 3>>>> }

ModifierTypes == {"Override", "Increment", "Decrement"}
CoordinateModifierTypes ==
    {"Override", "Increment", "Decrement", "IncrementDecrement", "DecrementIncrement"}
Alerts  == {"Select", "LSelect", "None"}
Effects == {"Colorloop", "None"}

\* Sample strings and addresses for the String / IpAddr arguments.
Strings == {"a", "b"}
IpAddrs == { <<192, 168, 1, 2>>, <<10, 0, 0, 1>> }

\* IpAddr::to_string for a V4 address.
IpToString(ip) ==
    ToString(ip[1]) \o "." \o ToString(ip[2]) \o "." \o ToString(ip[3]) \o "." \o ToString(ip[4])

----------------------------------------------------------------------------
(* The modifier types and their fields *)

Kinds == {"light::AttributeModifier", "light::StateModifier", "config::Modifier",
          "sensor::AttributeModifier", "sensor::StateModifier", "sensor::ConfigModifier"}

light_AttributeModifier == {"name"}

light_StateModifier ==
    {"on", "brightness", "hue", "saturation", "color_space_coordinates",
     "color_temperature", "alert", "effect", "transition_time",
     "brightness_increment", "hue_increment", "saturation_increment",
     "color_space_coordinates_increment", "color_temperature_increment"}

config_Modifier ==
    {"name", "ip_address", "netmask", "gateway", "dhcp", "proxy_port",
     "proxy_address", "linkbutton", "touchlink", "zigbee_channel",
     "current_time", "timezone"}

sensor_AttributeModifier == {"name"}
sensor_StateModifier     == {"presence"}
sensor_ConfigModifier    == {"on"}

Fields(k) ==
    CASE k = "light::AttributeModifier"  -> light_AttributeModifier
      [] k = "light::StateModifier"      -> light_StateModifier
      [] k = "config::Modifier"          -> config_Modifier
      [] k = "sensor::AttributeModifier" -> sensor_AttributeModifier
      [] k = "sensor::StateModifier"     -> sensor_StateModifier
      [] k = "sensor::ConfigModifier"    -> sensor_ConfigModifier

\* Default with a false flag in place of an unset one.
DefaultOnFalse(k) == [f \in Fields(k) |-> IF f \in {"on", "dhcp"} THEN Some(FALSE) ELSE None]

\* #[derive(Default)]: every Option field is None.
Default(k) == [f \in Fields(k) |-> None]

\* Modifier::new
new(k) == Default(k)

\* is_empty with the comparison inverted.
is_empty_inverted(k, self) == self # Default(k)

\* Modifier::is_empty
is_empty(k, self) == self = Default(k)


\* Every field sent under its own name, the rename attributes left out.
WireNameNoRename(k, f) == f

\* #[serde(rename = "...")]: the wire name of each field; a field without the
\* attribute is sent under its own name.
WireName(k, f) ==
    CASE k = "light::StateModifier" /\ f = "brightness"                        -> "bri"
      [] k = "light::StateModifier" /\ f = "saturation"                        -> "sat"
      [] k = "light::StateModifier" /\ f = "color_space_coordinates"           -> "xy"
      [] k = "light::StateModifier" /\ f = "color_temperature"                 -> "ct"
      [] k = "light::StateModifier" /\ f = "transition_time"                   -> "transitiontime"
      [] k = "light::StateModifier" /\ f = "brightness_increment"              -> "bri_inc"
      [] k = "light::StateModifier" /\ f = "hue_increment"                     -> "hue_inc"
      [] k = "light::StateModifier" /\ f = "saturation_increment"              -> "sat_inc"
      [] k = "light::StateModifier" /\ f = "color_space_coordinates_increment" -> "xy_inc"
      [] k = "light::StateModifier" /\ f = "color_temperature_increment"       -> "ct_inc"
      [] k = "config::Modifier" /\ f = "ip_address"                            -> "ipaddress"
      [] k = "config::Modifier" /\ f = "proxy_port"                            -> "proxyport"
      [] k = "config::Modifier" /\ f = "proxy_address"                         -> "proxyaddress"
      [] k = "config::Modifier" /\ f = "zigbee_channel"                        -> "zigbeechannel"
      [] k = "config::Modifier" /\ f = "current_time"                          -> "UTC"
      [] OTHER                                                                 -> f

\* #[derive(Serialize)] with skip_serializing_if = "Option::is_none" on every
\* field: the JSON object, as a function from the wire names of the populated
\* fields to their values.
Serialize(k, self) ==
    LET present == {f \in Fields(k) : self[f] # None}
    IN  [w \in {WireName(k, f) : f \in present} |->
            LET f == CHOOSE g \in present : WireName(k, g) = w
            IN  CHOOSE v \in self[f] : TRUE]

----------------------------------------------------------------------------
(* light::AttributeModifier *)

light_AttributeModifier_name(self, value) == [name |-> Some(value)]

----------------------------------------------------------------------------
(* light::StateModifier *)

light_StateModifier_on(self, value) == [self EXCEPT !.on = Some(value)]

\* brightness whose Override also clears the delta slot.
brightness_clearing(self, modifier_type, value) ==
    CASE modifier_type = "Override"  ->
            [self EXCEPT !.brightness = Some(value), !.brightness_increment = None]
      [] modifier_type = "Increment" ->
            [self EXCEPT !.brightness_increment = Some(AsI16(value))]
      [] modifier_type = "Decrement" ->
            [self EXCEPT !.brightness_increment = Some(NegI16(AsI16(value)))]

light_StateModifier_brightness(self, modifier_type, value) ==
    CASE modifier_type = "Override"  -> [self EXCEPT !.brightness = Some(value)]
      [] modifier_type = "Increment" ->
            [self EXCEPT !.brightness_increment = Some(AsI16(value))]
      [] modifier_type = "Decrement" ->
            [self EXCEPT !.brightness_increment = Some(NegI16(AsI16(value)))]

\* hue whose Decrement forgets the sign.
hue_unsigned(self, modifier_type, value) ==
    CASE modifier_type = "Override"  -> [self EXCEPT !.hue = Some(value)]
      [] modifier_type \in {"Increment", "Decrement"} ->
            [self EXCEPT !.hue_increment = Some(AsI32(value))]

light_StateModifier_hue(self, modifier_type, value) ==
    CASE modifier_type = "Override"  -> [self EXCEPT !.hue = Some(value)]
      [] modifier_type = "Increment" ->
            [self EXCEPT !.hue_increment = Some(AsI32(value))]
      [] modifier_type = "Decrement" ->
            [self EXCEPT !.hue_increment = Some(NegI32(AsI32(value)))]

\* saturation whose Increment/Decrement also writes the base slot.
saturation_both(self, modifier_type, value) ==
    CASE modifier_type = "Override"  -> [self EXCEPT !.saturation = Some(value)]
      [] modifier_type = "Increment" ->
            [self EXCEPT !.saturation_increment = Some(AsI16(value)),
                         !.saturation = Some(value)]
      [] modifier_type = "Decrement" ->
            [self EXCEPT !.saturation_increment = Some(NegI16(AsI16(value))),
                         !.saturation = Some(value)]

light_StateModifier_saturation(self, modifier_type, value) ==
    CASE modifier_type = "Override"  -> [self EXCEPT !.saturation = Some(value)]
      [] modifier_type = "Increment" ->
            [self EXCEPT !.saturation_increment = Some(AsI16(value))]
      [] modifier_type = "Decrement" ->
            [self EXCEPT !.saturation_increment = Some(NegI16(AsI16(value)))]

\* color_space_coordinates with the two mixed variants exchanged.
color_space_coordinates_swapped(self, modifier_type, value) ==
    CASE modifier_type = "Override" ->
            [self EXCEPT !.color_space_coordinates = Some(value)]
      [] modifier_type = "Increment" ->
            [self EXCEPT !.color_space_coordinates_increment = Some(value)]
      [] modifier_type = "Decrement" ->
            [self EXCEPT !.color_space_coordinates_increment =
                Some(<<F32Neg(value[1]), F32Neg(value[2])>>)]
      [] modifier_type = "IncrementDecrement" ->
            [self EXCEPT !.color_space_coordinates_increment =
                Some(<<F32Neg(value[1]), value[2]>>)]
      [] modifier_type = "DecrementIncrement" ->
            [self EXCEPT !.color_space_coordinates_increment =
                Some(<<value[1], F32Neg(value[2])>>)]

light_StateModifier_color_space_coordinates(self, modifier_type, value) ==
    CASE modifier_type = "Override" ->
            [self EXCEPT !.color_space_coordinates = Some(value)]
      [] modifier_type = "Increment" ->
            [self EXCEPT !.color_space_coordinates_increment = Some(value)]
      [] modifier_type = "Decrement" ->
            [self EXCEPT !.color_space_coordinates_increment =
                Some(<<F32Neg(value[1]), F32Neg(value[2])>>)]
      [] modifier_type = "IncrementDecrement" ->
            [self EXCEPT !.color_space_coordinates_increment =
                Some(<<value[1], F32Neg(value[2])>>)]
      [] modifier_type = "DecrementIncrement" ->
            [self EXCEPT !.color_space_coordinates_increment =
                Some(<<F32Neg(value[1]), value[2]>>)]

\* color_temperature whose Increment/Decrement adds to the delta already set.
color_temperature_accumulating(self, modifier_type, value) ==
    LET old == IF self.color_temperature_increment = None THEN 0
               ELSE CHOOSE v \in self.color_temperature_increment : TRUE
    IN  CASE modifier_type = "Override"  -> [self EXCEPT !.color_temperature = Some(value)]
          [] modifier_type = "Increment" ->
                [self EXCEPT !.color_temperature_increment = Some(old + AsI32(value))]
          [] modifier_type = "Decrement" ->
                [self EXCEPT !.color_temperature_increment = Some(old + NegI32(AsI32(value)))]

light_StateModifier_color_temperature(self, modifier_type, value) ==
    CASE modifier_type = "Override"  -> [self EXCEPT !.color_temperature = Some(value)]
      [] modifier_type = "Increment" ->
            [self EXCEPT !.color_temperature_increment = Some(AsI32(value))]
      [] modifier_type = "Decrement" ->
            [self EXCEPT !.color_temperature_increment = Some(NegI32(AsI32(value)))]

light_StateModifier_alert(self, value) == [self EXCEPT !.alert = Some(value)]

light_StateModifier_effect(self, value) == [self EXCEPT !.effect = Some(value)]

light_StateModifier_transition_time(self, value) ==
    [self EXCEPT !.transition_time = Some(value)]

----------------------------------------------------------------------------
(* config::Modifier *)

config_Modifier_name(self, value) == [self EXCEPT !.name = Some(value)]

config_Modifier_ip_address(self, value) == [self EXCEPT !.ip_address = Some(value)]

config_Modifier_netmask(self, value) == [self EXCEPT !.netmask = Some(value)]

config_Modifier_gateway(self, value) == [self EXCEPT !.gateway = Some(value)]

config_Modifier_dhcp(self, value) == [self EXCEPT !.dhcp = Some(value)]

config_Modifier_proxy_port(self, value) == [self EXCEPT !.proxy_port = Some(value)]

\* `value` is an Option<IpAddr>.
config_Modifier_proxy_address(self, value) ==
    [self EXCEPT !.proxy_address =
        Some(IF value # None THEN IpToString(CHOOSE v \in value : TRUE) ELSE "none")]

config_Modifier_linkbutton(self, value) == [self EXCEPT !.linkbutton = Some(value)]

config_Modifier_touchlink(self) == [self EXCEPT !.touchlink = Some(TRUE)]

config_Modifier_zigbee_channel(self, value) ==
    [self EXCEPT !.zigbee_channel = Some(value)]

config_Modifier_current_time(self, value) == [self EXCEPT !.current_time = Some(value)]

config_Modifier_timezone(self, value) == [self EXCEPT !.timezone = Some(value)]

----------------------------------------------------------------------------
(* sensor::AttributeModifier, sensor::StateModifier, sensor::ConfigModifier *)

sensor_AttributeModifier_name(self, value) == [self EXCEPT !.name = Some(value)]

sensor_StateModifier_presence(self, value) == [self EXCEPT !.presence = Some(value)]

sensor_ConfigModifier_on(self, value) == [self EXCEPT !.on = Some(value)]

----------------------------------------------------------------------------
(* Setter calls *)

\* A setter call: the method, its modifier type ("" when it takes none) and
\* its value argument (<<>> when it takes none).
Call(op, modifier_type, value) ==
    [op |-> op, modifier_type |-> modifier_type, value |-> value]

\* The method call self.<op>(modifier_type, value) on a modifier of type k.
Apply(k, self, c) ==
    CASE k = "light::AttributeModifier" -> light_AttributeModifier_name(self, c.value)
      [] k = "light::StateModifier" ->
           (CASE c.op = "on" -> light_StateModifier_on(self, c.value)
              [] c.op = "brightness" ->
                    light_StateModifier_brightness(self, c.modifier_type, c.value)
              [] c.op = "hue" -> light_StateModifier_hue(self, c.modifier_type, c.value)
              [] c.op = "saturation" ->
                    light_StateModifier_saturation(self, c.modifier_type, c.value)
              [] c.op = "color_space_coordinates" ->
                    light_StateModifier_color_space_coordinates(self, c.modifier_type, c.value)
              [] c.op = "color_temperature" ->
                    light_StateModifier_color_temperature(self, c.modifier_type, c.value)
              [] c.op = "alert" -> light_StateModifier_alert(self, c.value)
              [] c.op = "effect" -> light_StateModifier_effect(self, c.value)
              [] c.op = "transition_time" ->
                    light_StateModifier_transition_time(self, c.value))
      [] k = "config::Modifier" ->
           (CASE c.op = "name" -> config_Modifier_name(self, c.value)
              [] c.op = "ip_address" -> config_Modifier_ip_address(self, c.value)
              [] c.op = "netmask" -> config_Modifier_netmask(self, c.value)
              [] c.op = "gateway" -> config_Modifier_gateway(self, c.value)
              [] c.op = "dhcp" -> config_Modifier_dhcp(self, c.value)
              [] c.op = "proxy_port" -> config_Modifier_proxy_port(self, c.value)
              [] c.op = "proxy_address" -> config_Modifier_proxy_address(self, c.value)
              [] c.op = "linkbutton" -> config_Modifier_linkbutton(self, c.value)
              [] c.op = "touchlink" -> config_Modifier_touchlink(self)
              [] c.op = "zigbee_channel" -> config_Modifier_zigbee_channel(self, c.value)
              [] c.op = "current_time" -> config_Modifier_current_time(self, c.value)
              [] c.op = "timezone" -> config_Modifier_timezone(self, c.value))
      [] k = "sensor::AttributeModifier" -> sensor_AttributeModifier_name(self, c.value)
      [] k = "sensor::StateModifier"     -> sensor_StateModifier_presence(self, c.value)
      [] k = "sensor::ConfigModifier"    -> sensor_ConfigModifier_on(self, c.value)

----------------------------------------------------------------------------
(* JSON input and chrono's date-time parser *)

\* A JSON value: t is "string", "null", "number" or "object".  For a string s
\* is its text, for a number its digits; an object is one with the single
\* member "name", and s is that member's string.
Json(t, s) == [t |-> t, s |-> s]

\* The characters of the sample strings a "lastscan" member is given.
Chars(s) ==
    CASE s = "active" -> <<"a", "c", "t", "i", "v", "e">>
      [] s = "none"   -> <<"n", "o", "n", "e">>
      [] s = "2020-01-02T03:04:05" ->
            <<"2", "0", "2", "0", "-", "0", "1", "-", "0", "2", "T",
              "0", "3", ":", "0", "4", ":", "0", "5">>
      [] s = "2020-13-02T03:04:05" ->
            <<"2", "0", "2", "0", "-", "1", "3", "-", "0", "2", "T",
              "0", "3", ":", "0", "4", ":", "0", "5">>
      [] s = "2020-1-2T3:4:5" ->
            <<"2", "0", "2", "0", "-", "1", "-", "2", "T", "3", ":", "4", ":", "5">>
      [] s = "2021-06-07T08:09:10" ->
            <<"2", "0", "2", "1", "-", "0", "6", "-", "0", "7", "T",
              "0", "8", ":", "0", "9", ":", "1", "0">>
      [] s = "Active" -> <<"A", "c", "t", "i", "v", "e">>
      [] s = "None"   -> <<"N", "o", "n", "e">>
      [] s = "Hue bulb" -> <<"H", "u", "e", " ", "b", "u", "l", "b">>

Digits == {"0", "1", "2", "3", "4", "5", "6", "7", "8", "9"}

DigitValue(c) ==
    CASE c = "0" -> 0 [] c = "1" -> 1 [] c = "2" -> 2 [] c = "3" -> 3 [] c = "4" -> 4
      [] c = "5" -> 5 [] c = "6" -> 6 [] c = "7" -> 7 [] c = "8" -> 8 [] c = "9" -> 9

\* chrono's scan::number(s, 1, max): the number written by the leading digits
\* of cs, at least one and at most max of them; n is how many were consumed
\* (0 when cs starts with no digit, which is an error).
RECURSIVE ScanDigits(_, _, _, _)
ScanDigits(cs, max, n, acc) ==
    IF n < max /\ Len(cs) > n /\ cs[n + 1] \in Digits
    THEN ScanDigits(cs, max, n + 1, acc * 10 + DigitValue(cs[n + 1]))
    ELSE [n |-> n, value |-> acc]

\* A numeric item of the format: leading white space is skipped, then the
\* number is scanned.  Gives the value and the rest of the input.
RECURSIVE TrimStart(_)
TrimStart(cs) == IF Len(cs) > 0 /\ cs[1] = " " THEN TrimStart(Tail(cs)) ELSE cs

Numeric(cs, width) ==
    LET t == TrimStart(cs)
        r == ScanDigits(t, width, 0, 0)
    IN  [ok |-> r.n > 0, value |-> r.value, rest |-> SubSeq(t, r.n + 1, Len(t))]

\* A literal item of the format: the input must start with it.
Literal(cs, c) ==
    [ok |-> Len(cs) > 0 /\ cs[1] = c, rest |-> IF Len(cs) > 0 THEN Tail(cs) ELSE cs]

DaysInMonth(year, month) ==
    CASE month \in {1, 3, 5, 7, 8, 10, 12} -> 31
      [] month \in {4, 6, 9, 11} -> 30
      [] month = 2 ->
            IF year % 4 = 0 /\ (year % 100 # 0 \/ year % 400 = 0) THEN 29 ELSE 28
      [] OTHER -> 0

\* The items of the format "%Y-%m-%dT%H:%M:%S": a numeric item with its
\* greatest width, or a literal character.
Format ==
    LET NumericItem(width) == [numeric |-> TRUE, width |-> width, c |-> ""]
        LiteralItem(c)     == [numeric |-> FALSE, width |-> 0, c |-> c]
    IN  <<NumericItem(4), LiteralItem("-"), NumericItem(2), LiteralItem("-"), NumericItem(2),
          LiteralItem("T"),
          NumericItem(2), LiteralItem(":"), NumericItem(2), LiteralItem(":"), NumericItem(2)>>

\* chrono's format::parse: the items are matched against the input in turn,
\* each numeric item giving one field, and nothing may follow the last item.
RECURSIVE ParseItems(_, _, _)
ParseItems(items, cs, fields) ==
    IF items = <<>> THEN [ok |-> cs = <<>>, value |-> fields]
    ELSE IF Head(items).numeric
         THEN LET n == Numeric(cs, Head(items).width)
              IN  IF n.ok THEN ParseItems(Tail(items), n.rest, Append(fields, n.value))
                  ELSE [ok |-> FALSE, value |-> <<>>]
         ELSE LET l == Literal(cs, Head(items).c)
              IN  IF l.ok THEN ParseItems(Tail(items), l.rest, fields)
                  ELSE [ok |-> FALSE, value |-> <<>>]

\* chrono::NaiveDateTime::parse_from_str(v, "%Y-%m-%dT%H:%M:%S") on the
\* characters cs (a year without sign, as in the samples): the items are
\* matched in turn, nothing may follow the last one, and the fields must name
\* a date and a time (a second 60 is taken as a leap second).
parse_from_str(cs) ==
    LET r == ParseItems(Format, cs, <<>>)
        IsDateTime(dt) ==
            /\ dt[2] \in 1 .. 12
            /\ dt[3] \in 1 .. DaysInMonth(dt[1], dt[2])
            /\ dt[4] \in 0 .. 23
            /\ dt[5] \in 0 .. 59
            /\ dt[6] \in 0 .. 60
    IN  IF r.ok /\ IsDateTime(r.value)
        THEN [ok |-> TRUE, value |-> r.value]
        ELSE [ok |-> FALSE, value |-> <<>>]

----------------------------------------------------------------------------
(* light::Scan and its decoder *)

\* enum LastScan; dt is the date and time of DateTime, <<>> otherwise.
LastScan(variant, dt) == [variant |-> variant, dt |-> dt]

\* struct ScanLight
ScanLight(id, name) == [id |-> id, name |-> name]

\* Result<T, E>: tag "Ok" with a value, or tag "Err" with the error's kind.
Ok(v)  == [tag |-> "Ok", value |-> v, error |-> ""]
Err(e) == [tag |-> "Err", value |-> <<>>, error |-> e]

\* <LastScan as Deserialize>::deserialize of a JSON value.
LastScan_deserialize(v) ==
    IF v.t # "string" THEN Err("invalid type")
    ELSE CASE v.s = "active" -> Ok(LastScan("Active", <<>>))
           [] v.s = "none"   -> Ok(LastScan("None", <<>>))
           [] OTHER ->
                LET r == parse_from_str(Chars(v.s))
                IN  IF r.ok THEN Ok(LastScan("DateTime", r.value)) ELSE Err("custom")

\* serde_json::from_value::<Option<LastScan>>: null is None and any other
\* value is Some of its decoding.
Option_LastScan_from_value(v) ==
    IF v.t = "null" THEN Ok(None)
    ELSE LET r == LastScan_deserialize(v)
         IN  IF r.tag = "Ok" THEN Ok(Some(r.value)) ELSE Err("custom")

\* <String as Deserialize>::deserialize of a JSON value.
String_deserialize(v) == IF v.t = "string" THEN Ok(v.s) ELSE Err("invalid type")

\* The reserved key matched without regard to letter case.
Field_deserialize_caseless(key) ==
    IF key \in {"lastscan", "Lastscan"} THEN [field |-> "LastScan", id |-> ""]
    ELSE [field |-> "LightId", id |-> key]

\* <Field as Deserialize>::deserialize of a key.
Field_deserialize(key) ==
    IF key = "lastscan" THEN [field |-> "LastScan", id |-> ""]
    ELSE [field |-> "LightId", id |-> key]

----------------------------------------------------------------------------
(* The builder chain: Modifier::new(), then setter calls *)

NoCall == Call("new", "", <<>>)

\* No entity, whitelist or token is being decoded.
DecIdle ==
    /\ ty = ""
    /\ entity = <<>>
    /\ map = <<>>
    /\ users = <<>>
    /\ first = [tag |-> "none"]
    /\ encoded = None

ScanIdle ==
    /\ input = <<>>
    /\ pos = 0
    /\ lights = <<>>
    /\ last_scan = None
    /\ result = [tag |-> "none"]
    /\ pc = "idle"

Init ==
    /\ kind \in Kinds
    /\ modifier = new(kind)
    /\ last = NoCall
    /\ calls = 0
    /\ ScanIdle
    /\ DecIdle

\* One setter call c on a modifier of type k, giving the modifier `after`.
Chain(k, c, after) ==
    /\ kind = k
    /\ calls < MaxCalls
    /\ modifier' = after
    /\ last' = c
    /\ calls' = calls + 1
    /\ UNCHANGED <<kind, input, pos, lights, last_scan, result, pc>>
    /\ UNCHANGED decVars

LightAttrName ==
    \E value \in Strings :
        Chain("light::AttributeModifier", Call("name", "", value),
              light_AttributeModifier_name(modifier, value))

LightOn ==
    \E value \in BOOLEAN :
        Chain("light::StateModifier", Call("on", "", value),
              light_StateModifier_on(modifier, value))

LightBrightness ==
    \E modifier_type \in ModifierTypes, value \in U8Values :
        Chain("light::StateModifier", Call("brightness", modifier_type, value),
              light_StateModifier_brightness(modifier, modifier_type, value))

LightHue ==
    \E modifier_type \in ModifierTypes, value \in U16Values :
        Chain("light::StateModifier", Call("hue", modifier_type, value),
              light_StateModifier_hue(modifier, modifier_type, value))

LightSaturation ==
    \E modifier_type \in ModifierTypes, value \in U8Values :
        Chain("light::StateModifier", Call("saturation", modifier_type, value),
              light_StateModifier_saturation(modifier, modifier_type, value))

LightColorSpaceCoordinates ==
    \E modifier_type \in CoordinateModifierTypes, value \in F32Pairs :
        Chain("light::StateModifier", Call("color_space_coordinates", modifier_type, value),
              light_StateModifier_color_space_coordinates(modifier, modifier_type, value))

LightColorTemperature ==
    \E modifier_type \in ModifierTypes, value \in U16Values :
        Chain("light::StateModifier", Call("color_temperature", modifier_type, value),
              light_StateModifier_color_temperature(modifier, modifier_type, value))

LightAlert ==
    \E value \in Alerts :
        Chain("light::StateModifier", Call("alert", "", value),
              light_StateModifier_alert(modifier, value))

LightEffect ==
    \E value \in Effects :
        Chain("light::StateModifier", Call("effect", "", value),
              light_StateModifier_effect(modifier, value))

LightTransitionTime ==
    \E value \in U16Values :
        Chain("light::StateModifier", Call("transition_time", "", value),
              light_StateModifier_transition_time(modifier, value))

ConfigName ==
    \E value \in Strings :
        Chain("config::Modifier", Call("name", "", value),
              config_Modifier_name(modifier, value))

ConfigIpAddress ==
    \E value \in IpAddrs :
        Chain("config::Modifier", Call("ip_address", "", value),
              config_Modifier_ip_address(modifier, value))

ConfigNetmask ==
    \E value \in Strings :
        Chain("config::Modifier", Call("netmask", "", value),
              config_Modifier_netmask(modifier, value))

ConfigGateway ==
    \E value \in IpAddrs :
        Chain("config::Modifier", Call("gateway", "", value),
              config_Modifier_gateway(modifier, value))

ConfigDhcp ==
    \E value \in BOOLEAN :
        Chain("config::Modifier", Call("dhcp", "", value),
              config_Modifier_dhcp(modifier, value))

ConfigProxyPort ==
    \E value \in U16Values :
        Chain("config::Modifier", Call("proxy_port", "", value),
              config_Modifier_proxy_port(modifier, value))

ConfigProxyAddress ==
    \E value \in {None} \cup {Some(a) : a \in IpAddrs} :
        Chain("config::Modifier", Call("proxy_address", "", value),
              config_Modifier_proxy_address(modifier, value))

ConfigLinkbutton ==
    \E value \in BOOLEAN :
        Chain("config::Modifier", Call("linkbutton", "", value),
              config_Modifier_linkbutton(modifier, value))

ConfigTouchlink ==
    Chain("config::Modifier", Call("touchlink", "", <<>>),
          config_Modifier_touchlink(modifier))

ConfigZigbeeChannel ==
    \E value \in U8Values :
        Chain("config::Modifier", Call("zigbee_channel", "", value),
              config_Modifier_zigbee_channel(modifier, value))

ConfigCurrentTime ==
    \E value \in Strings :
        Chain("config::Modifier", Call("current_time", "", value),
              config_Modifier_current_time(modifier, value))

ConfigTimezone ==
    \E value \in Strings :
        Chain("config::Modifier", Call("timezone", "", value),
              config_Modifier_timezone(modifier, value))

SensorAttrName ==
    \E value \in Strings :
        Chain("sensor::AttributeModifier", Call("name", "", value),
              sensor_AttributeModifier_name(modifier, value))

SensorPresence ==
    \E value \in BOOLEAN :
        Chain("sensor::StateModifier", Call("presence", "", value),
              sensor_StateModifier_presence(modifier, value))

SensorConfigOn ==
    \E value \in BOOLEAN :
        Chain("sensor::ConfigModifier", Call("on", "", value),
              sensor_ConfigModifier_on(modifier, value))

Next ==
    \/ LightAttrName
    \/ LightOn
    \/ LightBrightness
    \/ LightHue
    \/ LightSaturation
    \/ LightColorSpaceCoordinates
    \/ LightColorTemperature
    \/ LightAlert
    \/ LightEffect
    \/ LightTransitionTime
    \/ ConfigName
    \/ ConfigIpAddress
    \/ ConfigNetmask
    \/ ConfigGateway
    \/ ConfigDhcp
    \/ ConfigProxyPort
    \/ ConfigProxyAddress
    \/ ConfigLinkbutton
    \/ ConfigTouchlink
    \/ ConfigZigbeeChannel
    \/ ConfigCurrentTime
    \/ ConfigTimezone
    \/ SensorAttrName
    \/ SensorPresence
    \/ SensorConfigOn

Spec == Init /\ [][Next]_vars

----------------------------------------------------------------------------
(* Decoding a scan result: ScanVisitor::visit_map over the object's entries *)

\* Most entries of an input object.
MaxEntries == 3

\* Sample keys: the reserved key, the reserved key in another letter case, and
\* a light identifier.
ScanKeys == {"lastscan", "Lastscan", "3"}

\* Sample values of the member "lastscan": the two sentinels, the sentinels in
\* another letter case, a date and time, one with a month 13, one with
\* unpadded fields, a name, and values that are no strings.
LastScanValues ==
    {Json("string", "active"), Json("string", "none"),
     Json("string", "Active"), Json("string", "None"),
     Json("string", "2020-01-02T03:04:05"), Json("string", "2020-13-02T03:04:05"),
     Json("string", "2020-1-2T3:4:5"), Json("string", "Hue bulb"),
     Json("null", ""), Json("number", "5"), Json("object", "Hue bulb")}

\* Sample values of a member under any other key.
LightValues ==
    {Json("string", "Hue bulb"), Json("null", ""), Json("object", "Hue bulb")}

JsonValues == LastScanValues \cup LightValues

Entries ==
    [key : {"lastscan"}, value : LastScanValues]
        \cup [key : ScanKeys \ {"lastscan"}, value : LightValues]

Inputs == UNION {[1 .. n -> Entries] : n \in 0 .. MaxEntries}

\* No builder chain runs beside the decoder.
ChainIdle ==
    /\ kind = "light::StateModifier"
    /\ modifier = new(kind)
    /\ last = NoCall
    /\ calls = 0

InitScan ==
    /\ ChainIdle
    /\ DecIdle
    /\ input \in Inputs
    /\ pos = 0
    /\ lights = <<>>
    /\ last_scan = None
    /\ result = [tag |-> "none"]
    /\ pc = "next_key"

\* The decoder returns r.
Return(r) ==
    /\ result' = r
    /\ pc' = "done"

\* map.next_key() gives the key "lastscan": its value is decoded to the status.
VisitLastScan ==
    /\ pc = "next_key"
    /\ pos < Len(input)
    /\ Field_deserialize(input[pos + 1].key).field = "LastScan"
    /\ LET r == Option_LastScan_from_value(input[pos + 1].value)
       IN  IF r.tag = "Ok"
           THEN /\ last_scan' = r.value
                /\ pos' = pos + 1
                /\ UNCHANGED <<result, pc>>
           ELSE /\ Return(Err(r.error))
                /\ UNCHANGED <<last_scan, pos>>
    /\ UNCHANGED <<lights, input, kind, modifier, last, calls>>
    /\ UNCHANGED decVars

\* map.next_key() gives any other key: a ScanLight with the key as its id and
\* the value, decoded as a String, as its name is pushed.
VisitLightId ==
    /\ pc = "next_key"
    /\ pos < Len(input)
    /\ Field_deserialize(input[pos + 1].key).field = "LightId"
    /\ LET v == Field_deserialize(input[pos + 1].key).id
           r == String_deserialize(input[pos + 1].value)
       IN  IF r.tag = "Ok"
           THEN /\ lights' = Append(lights, ScanLight(v, r.value))
                /\ pos' = pos + 1
                /\ UNCHANGED <<result, pc>>
           ELSE /\ Return(Err(r.error))
                /\ UNCHANGED <<lights, pos>>
    /\ UNCHANGED <<last_scan, input, kind, modifier, last, calls>>
    /\ UNCHANGED decVars

\* map.next_key() gives None: the Scan is built, or "lastscan" is missing.
VisitEnd ==
    /\ pc = "next_key"
    /\ pos = Len(input)
    /\ IF last_scan = None
       THEN Return(Err("missing field"))
       ELSE Return(Ok([lights |-> lights, last_scan |-> CHOOSE v \in last_scan : TRUE]))
    /\ UNCHANGED <<pos, lights, last_scan, input, kind, modifier, last, calls>>
    /\ UNCHANGED decVars

NextScan ==
    \/ VisitLastScan
    \/ VisitLightId
    \/ VisitEnd

SpecScan == InitScan /\ [][NextScan]_vars

----------------------------------------------------------------------------
(* Properties of the modifier builders *)

\* The attributes of light::StateModifier with a base slot and a delta slot.
IntegerDualAttributes == {"brightness", "hue", "saturation", "color_temperature"}
DualAttributes == IntegerDualAttributes \cup {"color_space_coordinates"}

DeltaSlot(attr) == attr \o "_increment"

\* The slot a setter call is documented to write.
TargetSlot(k, c) ==
    IF k = "light::StateModifier" /\ c.op \in DualAttributes /\ c.modifier_type # "Override"
    THEN DeltaSlot(c.op)
    ELSE c.op

\* The wire field a setter call is documented to produce.
TargetWire(k, c) ==
    LET base ==
            CASE k = "light::StateModifier" /\ c.op = "brightness"              -> "bri"
              [] k = "light::StateModifier" /\ c.op = "saturation"              -> "sat"
              [] k = "light::StateModifier" /\ c.op = "color_space_coordinates" -> "xy"
              [] k = "light::StateModifier" /\ c.op = "color_temperature"       -> "ct"
              [] k = "light::StateModifier" /\ c.op = "transition_time"   -> "transitiontime"
              [] k = "config::Modifier" /\ c.op = "ip_address"            -> "ipaddress"
              [] k = "config::Modifier" /\ c.op = "proxy_port"            -> "proxyport"
              [] k = "config::Modifier" /\ c.op = "proxy_address"         -> "proxyaddress"
              [] k = "config::Modifier" /\ c.op = "zigbee_channel"        -> "zigbeechannel"
              [] k = "config::Modifier" /\ c.op = "current_time"          -> "UTC"
              [] OTHER                                                    -> c.op
    IN  IF k = "light::StateModifier" /\ c.op \in DualAttributes /\ c.modifier_type # "Override"
        THEN base \o "_inc"
        ELSE base

Populated(k, self) == {f \in Fields(k) : self[f] # None}

\* The call that produced `modifier` is op(modifier_type, value).
LastIs(op, modifier_type, value) ==
    last.op = op /\ last.modifier_type = modifier_type /\ last.value = value

\* C1: for every modifier type, the value returned by new() has every slot
\* unset and serializes to an object with no fields.
C1_FreshModifierSerializesEmpty ==
    calls = 0 =>
        /\ \A f \in Fields(kind) : modifier[f] = None
        /\ DOMAIN Serialize(kind, modifier) = {}

C1_Witness ==
    /\ calls = 0
    /\ kind = "sensor::ConfigModifier"
    /\ modifier = new(kind)
    /\ DOMAIN Serialize(kind, modifier) = {}

\* C2: one setter call on a freshly constructed modifier gives a modifier whose
\* serialized object has exactly one field, the wire field the setter targets.
C2_OneSetterOneWireField ==
    calls = 1 => DOMAIN Serialize(kind, modifier) = {TargetWire(kind, last)}

C2_Witness ==
    /\ calls = 1
    /\ kind = "light::StateModifier"
    /\ last.op = "transition_time"
    /\ DOMAIN Serialize(kind, modifier) = {"transitiontime"}

\* C3: delta-sign law. For brightness, hue, saturation and color_temperature of
\* light::StateModifier, Override writes v to the base slot and leaves the delta
\* slot as it was; Increment writes +v and Decrement writes -v to the delta slot
\* and leave the base slot as it was.
C3_Step ==
    (kind = "light::StateModifier" /\ calls' = calls + 1
        /\ last'.op \in IntegerDualAttributes) =>
        LET base  == last'.op
            delta == DeltaSlot(last'.op)
            v     == last'.value
        IN  CASE last'.modifier_type = "Override" ->
                    /\ modifier'[base] = {v}
                    /\ modifier'[delta] = modifier[delta]
              [] last'.modifier_type = "Increment" ->
                    /\ modifier'[delta] = {v}
                    /\ modifier'[base] = modifier[base]
              [] last'.modifier_type = "Decrement" ->
                    /\ modifier'[delta] = {0 - v}
                    /\ modifier'[base] = modifier[base]

C3_DeltaSignLaw == [][C3_Step]_vars

C3_Witness ==
    /\ kind = "light::StateModifier"
    /\ LastIs("hue", "Decrement", 65535)
    /\ modifier.hue_increment = {-65535}
    /\ modifier.hue = {1}

\* C4: coordinate sign law. color_space_coordinates writes (x, y) to xy for
\* Override and writes to xy_inc the pair (x, y) for Increment, (-x, -y) for
\* Decrement, (x, -y) for IncrementDecrement and (-x, y) for DecrementIncrement;
\* Override never touches xy_inc and the other four never touch xy.
C4_Step ==
    (kind = "light::StateModifier" /\ calls' = calls + 1
        /\ last'.op = "color_space_coordinates") =>
        LET x  == last'.value[1]
            y  == last'.value[2]
            t  == last'.modifier_type
            nx == <<1 - x[1], x[2]>>
            ny == <<1 - y[1], y[2]>>
        IN  IF t = "Override"
            THEN /\ modifier'.color_space_coordinates = {<<x, y>>}
                 /\ modifier'.color_space_coordinates_increment =
                        modifier.color_space_coordinates_increment
            ELSE /\ modifier'.color_space_coordinates = modifier.color_space_coordinates
                 /\ modifier'.color_space_coordinates_increment =
                        CASE t = "Increment"          -> {<<x, y>>}
                          [] t = "Decrement"          -> {<<nx, ny>>}
                          [] t = "IncrementDecrement" -> {<<x, ny>>}
                          [] t = "DecrementIncrement" -> {<<nx, y>>}

C4_CoordinateSignLaw == [][C4_Step]_vars

\* (0.1, 0.2) with IncrementDecrement gives xy_inc = (0.1, -0.2).
C4_Witness ==
    /\ kind = "light::StateModifier"
    /\ LastIs("color_space_coordinates", "IncrementDecrement", <<<<0, 1>>, <<0, 2>>>>)
    /\ modifier.color_space_coordinates_increment = {<<<<0, 1>>, <<1, 2>>>>}
    /\ modifier.color_space_coordinates = None

\* C5: numeric widening. Increment stores the integer +v and Decrement the
\* integer -v with no wrap-around: bri_inc and sat_inc stay within [-255, 255]
\* and hue_inc and ct_inc within [-65535, 65535] after any sequence of calls.
\* The setter of attr, called on a fresh modifier with modifier type t.
FreshDelta(attr, t, v) ==
    Apply("light::StateModifier", new("light::StateModifier"), Call(attr, t, v))[DeltaSlot(attr)]

\* Every argument of the 8-bit and of the 16-bit setters, not the samples alone.
C5_EveryArgument ==
    /\ \A attr \in {"brightness", "saturation"} : \A v \in 0 .. 255 :
            /\ FreshDelta(attr, "Increment", v) = {v}
            /\ FreshDelta(attr, "Decrement", v) = {0 - v}
    /\ \A attr \in {"hue", "color_temperature"} : \A v \in 0 .. 65535 :
            /\ FreshDelta(attr, "Increment", v) = {v}
            /\ FreshDelta(attr, "Decrement", v) = {0 - v}

C5_NumericWidening ==
    kind = "light::StateModifier" =>
        /\ C5_EveryArgument
        /\ modifier.brightness_increment \subseteq -255 .. 255
        /\ modifier.saturation_increment \subseteq -255 .. 255
        /\ modifier.hue_increment \subseteq -65535 .. 65535
        /\ modifier.color_temperature_increment \subseteq -65535 .. 65535
        /\ (last.op \in IntegerDualAttributes /\ last.modifier_type = "Increment") =>
                modifier[DeltaSlot(last.op)] = {last.value}
        /\ (last.op \in IntegerDualAttributes /\ last.modifier_type = "Decrement") =>
                modifier[DeltaSlot(last.op)] = {0 - last.value}

C5_Witness ==
    /\ kind = "light::StateModifier"
    /\ LastIs("brightness", "Decrement", 255)
    /\ modifier.brightness_increment = {-255}
    /\ modifier.hue_increment = {65535}

\* C6: fields never clear each other. A setter call changes only the slot it
\* targets and leaves every other slot, the companion base/delta slot included,
\* as it was; the set of populated slots never shrinks.
C6_Step ==
    calls' = calls + 1 =>
        /\ \A f \in Fields(kind) \ {TargetSlot(kind, last')} : modifier'[f] = modifier[f]
        /\ modifier'[TargetSlot(kind, last')] # None
        /\ Populated(kind, modifier) \subseteq Populated(kind, modifier')

C6_FieldsNeverClear == [][C6_Step]_vars

C6_Witness ==
    /\ kind = "light::StateModifier"
    /\ LastIs("brightness", "Override", 1)
    /\ modifier.brightness = {1}
    /\ modifier.brightness_increment = {-255}
    /\ calls = 2

\* At most one of an attribute's base slot and delta slot is populated.
Duality(self) ==
    \A attr \in DualAttributes : self[attr] = None \/ self[DeltaSlot(attr)] = None

\* C7 as stated: in every reachable light::StateModifier at most one of the two
\* wire slots of each attribute is populated.
C7_Original == kind = "light::StateModifier" => Duality(modifier)

\* C7 as amended: one setter call writes at most one of the two slots of an
\* attribute, so a modifier built by at most one call has at most one of them
\* populated; nothing keeps a later call from populating the other one.
C7_Step ==
    (kind = "light::StateModifier" /\ calls' = calls + 1) =>
        \A attr \in DualAttributes :
            modifier'[attr] = modifier[attr]
                \/ modifier'[DeltaSlot(attr)] = modifier[DeltaSlot(attr)]

C7_OneSlotPerCall ==
    /\ []((kind = "light::StateModifier" /\ calls <= 1) => Duality(modifier))
    /\ [][C7_Step]_vars

\* Both slots of saturation populated, by two calls.
C7_Witness ==
    /\ kind = "light::StateModifier"
    /\ calls = 2
    /\ LastIs("saturation", "Increment", 255)
    /\ modifier.saturation = {0}
    /\ modifier.saturation_increment = {255}

\* Call cb, when it targets another slot than call ca, gives the same modifier
\* applied after ca (to `after`, which is `before` with ca applied) as applied
\* before it.
Commutes(k, before, after, ca, cb) ==
    TargetSlot(k, cb) # TargetSlot(k, ca) =>
        Apply(k, after, cb) = Apply(k, Apply(k, before, cb), ca)

\* Commutes, for every setter call cb of modifier type k over the sample arguments.
AllCommute(k, before, after, ca) ==
    CASE k = "light::AttributeModifier" -> \A v \in Strings : Commutes(k, before, after, ca, Call("name", "", v))
      [] k = "light::StateModifier" ->
            /\ \A v \in BOOLEAN : Commutes(k, before, after, ca, Call("on", "", v))
            /\ \A t \in ModifierTypes, v \in U8Values : Commutes(k, before, after, ca, Call("brightness", t, v))
            /\ \A t \in ModifierTypes, v \in U16Values : Commutes(k, before, after, ca, Call("hue", t, v))
            /\ \A t \in ModifierTypes, v \in U8Values : Commutes(k, before, after, ca, Call("saturation", t, v))
            /\ \A t \in CoordinateModifierTypes, v \in F32Pairs :
                    Commutes(k, before, after, ca, Call("color_space_coordinates", t, v))
            /\ \A t \in ModifierTypes, v \in U16Values : Commutes(k, before, after, ca, Call("color_temperature", t, v))
            /\ \A v \in Alerts : Commutes(k, before, after, ca, Call("alert", "", v))
            /\ \A v \in Effects : Commutes(k, before, after, ca, Call("effect", "", v))
            /\ \A v \in U16Values : Commutes(k, before, after, ca, Call("transition_time", "", v))
      [] k = "config::Modifier" ->
            /\ \A v \in Strings : Commutes(k, before, after, ca, Call("name", "", v))
            /\ \A v \in IpAddrs : Commutes(k, before, after, ca, Call("ip_address", "", v))
            /\ \A v \in Strings : Commutes(k, before, after, ca, Call("netmask", "", v))
            /\ \A v \in IpAddrs : Commutes(k, before, after, ca, Call("gateway", "", v))
            /\ \A v \in BOOLEAN : Commutes(k, before, after, ca, Call("dhcp", "", v))
            /\ \A v \in U16Values : Commutes(k, before, after, ca, Call("proxy_port", "", v))
            /\ \A v \in {None} \cup {Some(a) : a \in IpAddrs} : Commutes(k, before, after, ca, Call("proxy_address", "", v))
            /\ \A v \in BOOLEAN : Commutes(k, before, after, ca, Call("linkbutton", "", v))
            /\ Commutes(k, before, after, ca, Call("touchlink", "", <<>>))
            /\ \A v \in U8Values : Commutes(k, before, after, ca, Call("zigbee_channel", "", v))
            /\ \A v \in Strings : Commutes(k, before, after, ca, Call("current_time", "", v))
            /\ \A v \in Strings : Commutes(k, before, after, ca, Call("timezone", "", v))
      [] k = "sensor::AttributeModifier" -> \A v \in Strings : Commutes(k, before, after, ca, Call("name", "", v))
      [] k = "sensor::StateModifier"     -> \A v \in BOOLEAN : Commutes(k, before, after, ca, Call("presence", "", v))
      [] k = "sensor::ConfigModifier"    -> \A v \in BOOLEAN : Commutes(k, before, after, ca, Call("on", "", v))

\* C8: two setter calls that target different slots commute, and of two calls
\* that target the same slot the later one decides the slot's value.
C8_Step ==
    calls' = calls + 1 =>
        LET a == last'
            t == TargetSlot(kind, a)
        IN  /\ AllCommute(kind, modifier, modifier', a)
            /\ modifier'[t] = Apply(kind, new(kind), a)[t]

C8_CommuteAndLastWriteWins == [][C8_Step]_vars

\* Two calls on the delta slot of color_temperature, the later a Decrement.
C8_Witness ==
    /\ kind = "light::StateModifier"
    /\ calls = 2
    /\ LastIs("color_temperature", "Decrement", 1)
    /\ Populated(kind, modifier) = {"color_temperature_increment"}
    /\ modifier.color_temperature_increment = {-1}

\* C9: is_empty() holds exactly of a modifier whose every slot is unset, as in
\* a freshly constructed one; after one or more setter calls it is false and
\* the serialized payload has at least one field.  (Of the modifier types, the
\* light ones implement the Modifier trait of lib.rs.)
C9_IsEmptyIffDefault ==
    kind \in {"light::AttributeModifier", "light::StateModifier"} =>
        /\ is_empty(kind, modifier) <=> (\A f \in Fields(kind) : modifier[f] = None)
        /\ calls = 0 => is_empty(kind, modifier)
        /\ calls >= 1 =>
                /\ ~is_empty(kind, modifier)
                /\ DOMAIN Serialize(kind, modifier) # {}

C9_Witness ==
    /\ kind = "light::StateModifier"
    /\ calls = 1
    /\ LastIs("on", "", FALSE)
    /\ ~is_empty(kind, modifier)
    /\ DOMAIN Serialize(kind, modifier) = {"on"}

----------------------------------------------------------------------------
(* Properties of the scan decoder *)

\* The entries of inp under keys other than "lastscan", in order, each as the
\* ScanLight its key and its name member make.
RECURSIVE NamedLights(_)
NamedLights(inp) ==
    IF inp = <<>> THEN <<>>
    ELSE IF Head(inp).key = "lastscan" THEN NamedLights(Tail(inp))
         ELSE <<ScanLight(Head(inp).key, Head(inp).value.s)>> \o NamedLights(Tail(inp))

\* An input as the bridge documents it: "lastscan" once, with the value
\* "active", and every other key mapped to an object {"name": n}.
DocumentedScan(inp) ==
    /\ \E i \in 1 .. Len(inp) : inp[i].key = "lastscan"
    /\ \A i \in 1 .. Len(inp) :
            IF inp[i].key = "lastscan"
            THEN inp[i].value = Json("string", "active")
                    /\ \A j \in 1 .. Len(inp) : inp[j].key = "lastscan" => j = i
            ELSE inp[i].value.t = "object"

\* C10: a scan result whose dynamic-ID entries are objects with a single name
\* field decodes: {"lastscan": "active", "3": {"name": "Hue bulb"}} gives a
\* Scan with last_scan = Active and the one ScanLight ("3", "Hue bulb"); in
\* general every key k other than "lastscan" mapped to {"name": n} gives the
\* record (id = k, name = n).
C10_ScanDecodesNameObjects ==
    (pc = "done" /\ DocumentedScan(input)) =>
        /\ result.tag = "Ok"
        /\ result.value.last_scan.variant = "Active"
        /\ result.value.lights = NamedLights(input)

\* C11: when the key "lastscan" is not among the keys of the input object,
\* whatever the number of other keys, the decoder returns the missing-field
\* error and no Scan.
C11_MissingLastScanIsMissingField ==
    (pc = "done" /\ \A i \in 1 .. Len(input) : input[i].key # "lastscan") =>
        result = Err("missing field")

\* The keys of inp other than "lastscan", in order.
RECURSIVE NonReservedKeys(_)
NonReservedKeys(inp) ==
    IF inp = <<>> THEN <<>>
    ELSE IF Head(inp).key = "lastscan" THEN NonReservedKeys(Tail(inp))
         ELSE <<Head(inp).key>> \o NonReservedKeys(Tail(inp))

Ids(records) == [i \in 1 .. Len(records) |-> records[i].id]

\* One key/value pair is consumed: the key "lastscan" sets the status and adds
\* no record; any other key leaves the status alone and appends one record
\* whose id is the key.
C12_Step ==
    (pc = "next_key" /\ pos' = pos + 1) =>
        LET key == input[pos + 1].key
        IN  IF key = "lastscan"
            THEN /\ lights' = lights
                 /\ last_scan' = Option_LastScan_from_value(input[pos + 1].value).value
            ELSE /\ last_scan' = last_scan
                 /\ Len(lights') = Len(lights) + 1
                 /\ SubSeq(lights', 1, Len(lights)) = lights
                 /\ lights'[Len(lights')].id = key

\* C12: key dispatch.  A key is routed to the last-scan status exactly when it
\* is the string "lastscan" (in that letter case) and then produces no record;
\* every other key produces one record with the key as its id, appended to the
\* list, so the list holds one record per key other than "lastscan", in the
\* order of the keys, during the pass and in the Scan returned.
C12_KeyDispatch ==
    /\ [](Ids(lights) = NonReservedKeys(SubSeq(input, 1, pos)))
    /\ []((pc = "done" /\ result.tag = "Ok") =>
                Ids(result.value.lights) = NonReservedKeys(input))
    /\ [][C12_Step]_vars

\* {"lastscan": "active", "Lastscan": "Hue bulb", "3": "Hue bulb"} is decoded:
\* the key in another letter case is a light.
C12_Witness ==
    /\ pc = "done"
    /\ result.tag = "Ok"
    /\ Len(input) = 3
    /\ input[1].key = "lastscan"
    /\ result.value.last_scan = LastScan("Active", <<>>)
    /\ result.value.lights =
            <<ScanLight("Lastscan", "Hue bulb"), ScanLight("3", "Hue bulb")>>

\* cs is written as YYYY-MM-DDTHH:MM:SS.
Formatted(cs) ==
    /\ Len(cs) = 19
    /\ \A i \in 1 .. 19 :
            CASE i \in {5, 8}   -> cs[i] = "-"
              [] i = 11         -> cs[i] = "T"
              [] i \in {14, 17} -> cs[i] = ":"
              [] OTHER          -> cs[i] \in Digits

TwoDigits(cs, i) == 10 * DigitValue(cs[i]) + DigitValue(cs[i + 1])

\* The fields a string written as YYYY-MM-DDTHH:MM:SS names.
Instant(cs) ==
    <<100 * TwoDigits(cs, 1) + TwoDigits(cs, 3), TwoDigits(cs, 6), TwoDigits(cs, 9),
      TwoDigits(cs, 12), TwoDigits(cs, 15), TwoDigits(cs, 18)>>

\* The fields name a date and a time of day.
IsInstant(dt) ==
    /\ dt[2] \in 1 .. 12
    /\ dt[3] \in 1 .. DaysInMonth(dt[1], dt[2])
    /\ dt[4] \in 0 .. 23
    /\ dt[5] \in 0 .. 59
    /\ dt[6] \in 0 .. 59

\* The value of a "lastscan" member, other than null, is decoded.
C13_Step ==
    (pc = "next_key" /\ pos < Len(input) /\ input[pos + 1].key = "lastscan"
        /\ input[pos + 1].value.t # "null") =>
        LET v == input[pos + 1].value
        IN  CASE v.t # "string" -> result'.tag = "Err"
              [] v.t = "string" /\ v.s = "active" ->
                    last_scan' = Some(LastScan("Active", <<>>))
              [] v.t = "string" /\ v.s = "none" ->
                    last_scan' = Some(LastScan("None", <<>>))
              [] v.t = "string" /\ v.s \notin {"active", "none"}
                    /\ Formatted(Chars(v.s)) /\ IsInstant(Instant(Chars(v.s))) ->
                    last_scan' = Some(LastScan("DateTime", Instant(Chars(v.s))))
              [] OTHER -> result'.tag = "Err"

\* C13: decoding the last-scan status.  "active" gives Active, "none" gives
\* None, a string written as YYYY-MM-DDTHH:MM:SS gives DateTime of that
\* instant, and every other string ("None" and "Active" among them) and every
\* value that is no string is a decode error.
C13_LastScanDecoding ==
    /\ [](\A v \in JsonValues : v.t # "string" => LastScan_deserialize(v).tag = "Err")
    /\ [][C13_Step]_vars

\* The index of the last member "lastscan" of inp.
LastOccurrence(inp) ==
    CHOOSE i \in 1 .. Len(inp) :
        /\ inp[i].key = "lastscan"
        /\ \A j \in (i + 1) .. Len(inp) : inp[j].key # "lastscan"

\* C20: when the key "lastscan" is present in the object, with any value (null
\* included), the decoder never returns the missing-field error, and the Scan
\* it returns holds the status of the last occurrence of the key.
C20_PresentKeyIsNeverMissing ==
    (pc = "done" /\ \E i \in 1 .. Len(input) : input[i].key = "lastscan") =>
        /\ result # Err("missing field")
        /\ result.tag = "Ok" =>
                Some(result.value.last_scan) =
                    Option_LastScan_from_value(input[LastOccurrence(input)].value).value

----------------------------------------------------------------------------
(* Decoding a single resource: #[derive(Deserialize)] of Light, Sensor, User *)

\* The payload of a single resource is a JSON object, modelled as a function
\* from its member names to JSON values.  A JSON value of type "bool" has the
\* text "true" or "false".  The nested records of a resource (state, config,
\* swupdate, capabilities) are not taken apart: each is one JSON object.

EntityTypes == {"Light", "Sensor", "User"}

Field(name, wire, type, skip) == [name |-> name, wire |-> wire, type |-> type, skip |-> skip]

\* struct Light
Light ==
    {Field("id", "", "String", TRUE),
     Field("name", "name", "String", FALSE),
     Field("kind", "type", "String", FALSE),
     Field("state", "state", "struct", FALSE),
     Field("model_id", "modelid", "String", FALSE),
     Field("unique_id", "uniqueid", "String", FALSE),
     Field("product_id", "productid", "Option<String>", FALSE),
     Field("product_name", "productname", "Option<String>", FALSE),
     Field("manufacturer_name", "manufacturername", "Option<String>", FALSE),
     Field("software_version", "swversion", "String", FALSE),
     Field("software_update", "swupdate", "struct", FALSE),
     Field("config", "config", "struct", FALSE),
     Field("capabilities", "capabilities", "struct", FALSE)}

\* struct Sensor
Sensor ==
    {Field("id", "", "String", TRUE),
     Field("name", "name", "String", FALSE),
     Field("type_name", "type", "String", FALSE),
     Field("model_id", "modelid", "String", FALSE),
     Field("unique_id", "uniqueid", "Option<String>", FALSE),
     Field("manufacturer_name", "manufacturername", "Option<String>", FALSE),
     Field("software_verion", "swversion", "String", FALSE),
     Field("state", "state", "struct", FALSE),
     Field("config", "config", "struct", FALSE),
     Field("recycle", "recycle", "Option<bool>", FALSE)}

\* struct User
User ==
    {Field("id", "", "String", TRUE),
     Field("name", "name", "String", FALSE),
     Field("last_use_date", "last use date", "NaiveDateTime", FALSE),
     Field("create_date", "create date", "NaiveDateTime", FALSE)}

Schema(t) ==
    CASE t = "Light"  -> Light
      [] t = "Sensor" -> Sensor
      [] t = "User"   -> User

\* <chrono::NaiveDateTime as Deserialize>::deserialize: the string is parsed
\* as date, "T", time (the sample strings have no fraction of a second).
NaiveDateTime_deserialize(v) ==
    IF v.t # "string" THEN Err("invalid type")
    ELSE LET r == parse_from_str(Chars(v.s))
         IN  IF r.ok THEN Ok(r.value) ELSE Err("custom")

\* <T as Deserialize>::deserialize for the type of a field.
RECURSIVE DeserializeAs(_, _)
DeserializeAs(type, v) ==
    CASE type = "String"        -> String_deserialize(v)
      [] type = "NaiveDateTime" -> NaiveDateTime_deserialize(v)
      [] type = "bool" ->
            IF v.t = "bool" THEN Ok(v.s = "true") ELSE Err("invalid type")
      [] type = "struct" ->
            IF v.t = "object" THEN Ok(v) ELSE Err("invalid type")
      [] type \in {"Option<String>", "Option<bool>"} ->
            IF v.t = "null" THEN Ok(None)
            ELSE LET r == DeserializeAs(IF type = "Option<String>" THEN "String" ELSE "bool", v)
                 IN  IF r.tag = "Ok" THEN Ok(Some(r.value)) ELSE r

IsOption(type) == type \in {"Option<String>", "Option<bool>"}

\* The derived decoder without #[serde(skip)] on id: the member "id" is read.
Struct_deserialize_reading_id(t, payload) ==
    LET r(f) == DeserializeAs(f.type, payload[IF f.skip THEN "id" ELSE f.wire])
        here(f) == (IF f.skip THEN "id" ELSE f.wire) \in DOMAIN payload
        bad == {f \in Schema(t) : here(f) /\ r(f).tag = "Err"}
        missing == {f \in Schema(t) : ~here(f) /\ ~IsOption(f.type) /\ ~f.skip}
    IN  IF bad # {} THEN Err(r(CHOOSE f \in bad : TRUE).error)
        ELSE IF missing # {} THEN Err("missing field")
        ELSE Ok([n \in {f.name : f \in Schema(t)} |->
                    LET f == CHOOSE g \in Schema(t) : g.name = n
                    IN  IF here(f) THEN r(f).value
                        ELSE IF f.skip THEN "" ELSE None])

\* #[derive(Deserialize)] of a struct, from a JSON object: every member under
\* the wire name of a field that is not skipped is decoded to the field's
\* type, and any other member (one named "id" too) is ignored; the first member
\* that fails gives the error.  A field that is not skipped and has no member
\* is None if it is an Option and the missing-field error otherwise.  A
\* skipped field gets its type's default, the empty string.
Struct_deserialize(t, payload) ==
    LET fields == {f \in Schema(t) : ~f.skip}
        r(f) == DeserializeAs(f.type, payload[f.wire])
        bad == {f \in fields : f.wire \in DOMAIN payload /\ r(f).tag = "Err"}
        missing == {f \in fields : f.wire \notin DOMAIN payload /\ ~IsOption(f.type)}
    IN  IF bad # {} THEN Err(r(CHOOSE f \in bad : TRUE).error)
        ELSE IF missing # {} THEN Err("missing field")
        ELSE Ok([n \in {f.name : f \in Schema(t)} |->
                    LET f == CHOOSE g \in Schema(t) : g.name = n
                    IN  IF f.skip THEN ""
                        ELSE IF f.wire \in DOMAIN payload THEN r(f).value
                        ELSE None])

\* Light::with_id
Light_with_id(self, id) == [self EXCEPT !.id = id]

\* Sensor::with_id
Sensor_with_id(self, id) == [self EXCEPT !.id = id]

\* with_id that hands back the user as it is.
User_with_id_unset(self, id) == self

\* User::with_id
User_with_id(self, id) == [self EXCEPT !.id = id]

with_id(t, self, id) ==
    CASE t = "Light"  -> Light_with_id(self, id)
      [] t = "Sensor" -> Sensor_with_id(self, id)
      [] t = "User"   -> User_with_id(self, id)

\* Sample identifiers given to with_id.
EntityIds == {"1", "2"}

\* A well-formed value for a field of the given type.
SampleValue(f) ==
    CASE f.type \in {"String", "Option<String>"} -> Json("string", "a")
      [] f.type = "NaiveDateTime" ->
            IF f.name = "create_date" THEN Json("string", "2020-01-02T03:04:05")
            ELSE Json("string", "2021-06-07T08:09:10")
      [] f.type = "Option<bool>" -> Json("bool", "true")
      [] f.type = "struct" -> Json("object", "")

WireNames(t) == {f.wire : f \in {g \in Schema(t) : ~g.skip}}

\* The payload with every member present and well-formed.
FullPayload(t) ==
    [w \in WireNames(t) |-> SampleValue(CHOOSE f \in Schema(t) : f.wire = w)]

\* p with the member w set to v.
WithMember(p, w, v) == [x \in DOMAIN p \cup {w} |-> IF x = w THEN v ELSE p[x]]

\* p without the member w.
WithoutMember(p, w) == [x \in DOMAIN p \ {w} |-> p[x]]

\* Sample payloads of a single resource: the full payload, and the full
\* payload with one member left out, null or a number; each also with a member
\* "id" that is a string or a number.
EntityPayloads(t) ==
    LET base == {FullPayload(t)}
                    \cup {WithoutMember(FullPayload(t), w) : w \in WireNames(t)}
                    \cup {WithMember(FullPayload(t), w, Json("null", "")) : w \in WireNames(t)}
                    \cup {WithMember(FullPayload(t), w, Json("number", "5")) : w \in WireNames(t)}
    IN  base \cup {WithMember(p, "id", Json("string", "7")) : p \in base}
             \cup {WithMember(p, "id", Json("number", "5")) : p \in base}

\* No scan result is being decoded.
ScanLocalsIdle ==
    /\ pos = 0
    /\ lights = <<>>
    /\ last_scan = None

InitEntity ==
    /\ ChainIdle
    /\ ScanLocalsIdle
    /\ ty \in EntityTypes
    /\ input \in EntityPayloads(ty)
    /\ entity = <<>>
    /\ map = <<>>
    /\ users = <<>>
    /\ first = [tag |-> "none"]
    /\ encoded = None
    /\ result = [tag |-> "none"]
    /\ pc = "deserialize"

\* The payload is decoded to the entity type.
EntityDeserialize ==
    /\ pc = "deserialize"
    /\ LET r == Struct_deserialize(ty, input)
       IN  /\ result' = r
           /\ entity' = IF r.tag = "Ok" THEN r.value ELSE entity
    /\ pc' = "decoded"
    /\ UNCHANGED <<kind, modifier, last, calls, input, pos, lights, last_scan>>
    /\ UNCHANGED <<ty, map, users, first, encoded>>

\* with_id(id) on the decoded entity.
EntityWithId ==
    /\ pc = "decoded"
    /\ result.tag = "Ok"
    /\ \E id \in EntityIds :
            /\ entity' = with_id(ty, entity, id)
            /\ last' = Call("with_id", "", id)
    /\ UNCHANGED <<kind, modifier, calls, input, pos, lights, last_scan, result, pc>>
    /\ UNCHANGED <<ty, map, users, first, encoded>>

NextEntity ==
    \/ EntityDeserialize
    \/ EntityWithId

SpecEntity == InitEntity /\ [][NextEntity]_vars

\* The fields of the entity other than id.
OtherFields(t) == {f.name : f \in Schema(t)} \ {"id"}

\* A step that changes the entity after it is decoded is a with_id(k): id
\* becomes k and every other field stays as it was.
C17_Step ==
    (pc = "decoded" /\ entity' # entity) =>
        /\ last'.op = "with_id"
        /\ entity'.id = last'.value
        /\ \A n \in OtherFields(ty) : entity'[n] = entity[n]

\* C17: an entity decoder never sets the id.  A Light, Sensor or User decoded
\* from the payload of a single resource has the empty string as id, also when
\* the payload has a member "id"; only with_id(k) sets the id, to k, and it
\* leaves every other field unchanged.
C17_DecodersNeverSetId ==
    /\ []((pc = "decoded" /\ result.tag = "Ok" /\ last.op # "with_id") => entity.id = "")
    /\ []((pc = "decoded" /\ result.tag = "Ok") => result.value.id = "")
    /\ [][C17_Step]_vars

\* A User whose payload has the member "id": "7" is decoded with an empty id,
\* and with_id("2") then sets the id and nothing else.
C17_Witness ==
    /\ ty = "User"
    /\ pc = "decoded"
    /\ "id" \in DOMAIN input
    /\ input["id"] = Json("string", "7")
    /\ result.tag = "Ok"
    /\ result.value.id = ""
    /\ last.op = "with_id"
    /\ entity = [result.value EXCEPT !.id = "2"]

----------------------------------------------------------------------------
(* Decoding the whitelist of the bridge configuration: deserialize_whitelist *)

WhitelistKeys == {"u1", "u2"}

\* Sample payloads of a user: a well-formed one, one with another name and a
\* member "id", and one without a name.
UserPayloads ==
    {FullPayload("User"),
     WithMember(WithMember(FullPayload("User"), "name", Json("string", "b")),
                "id", Json("string", "7")),
     WithoutMember(FullPayload("User"), "name")}

WhitelistEntries == [key : WhitelistKeys, value : UserPayloads]

WhitelistInputs == UNION {[1 .. n -> WhitelistEntries] : n \in 0 .. MaxEntries}

InitWhitelist ==
    /\ ChainIdle
    /\ ScanLocalsIdle
    /\ ty = "whitelist"
    /\ input \in WhitelistInputs
    /\ entity = <<>>
    /\ map = <<>>
    /\ users = <<>>
    /\ first = [tag |-> "none"]
    /\ encoded = None
    /\ result = [tag |-> "none"]
    /\ pc = "deserialize_whitelist"

\* Decoding the map with every entry that fails to decode left out.
WhitelistInsert_skipping ==
    /\ pc = "deserialize_whitelist"
    /\ pos < Len(input)
    /\ LET r == Struct_deserialize("User", input[pos + 1].value)
       IN  /\ map' = IF r.tag = "Ok" THEN WithMember(map, input[pos + 1].key, r.value)
                     ELSE map
           /\ pos' = pos + 1
           /\ UNCHANGED <<result, pc>>
    /\ UNCHANGED <<kind, modifier, last, calls, input, lights, last_scan>>
    /\ UNCHANGED <<ty, entity, users, first, encoded>>

\* Deserialize of HashMap<String, User>, one entry of the object: the payload
\* is decoded to a User and inserted under its key, in place of a User already
\* there; a payload that fails to decode ends the decoding with its error.
WhitelistInsert ==
    /\ pc = "deserialize_whitelist"
    /\ pos < Len(input)
    /\ LET r == Struct_deserialize("User", input[pos + 1].value)
       IN  IF r.tag = "Ok"
           THEN /\ map' = WithMember(map, input[pos + 1].key, r.value)
                /\ pos' = pos + 1
                /\ UNCHANGED <<result, pc>>
           ELSE /\ Return(Err(r.error))
                /\ UNCHANGED <<map, pos>>
    /\ UNCHANGED <<kind, modifier, last, calls, input, lights, last_scan>>
    /\ UNCHANGED <<ty, entity, users, first, encoded>>

\* for (id, user) in map: the HashMap hands out its entries in an order of its
\* own (that of the hashes under the map's random seed), so the next entry is
\* any of those left.
WhitelistPush ==
    /\ pc = "deserialize_whitelist"
    /\ pos = Len(input)
    /\ \E id \in DOMAIN map :
            /\ users' = Append(users, User_with_id(map[id], id))
            /\ map' = WithoutMember(map, id)
    /\ UNCHANGED <<kind, modifier, last, calls, input, pos, lights, last_scan, result, pc>>
    /\ UNCHANGED <<ty, entity, first, encoded>>

\* Ok(users)
WhitelistReturn ==
    /\ pc = "deserialize_whitelist"
    /\ pos = Len(input)
    /\ DOMAIN map = {}
    /\ Return(Ok(users))
    /\ UNCHANGED <<kind, modifier, last, calls, input, pos, lights, last_scan>>
    /\ UNCHANGED <<ty, entity, map, users, first, encoded>>

\* The same payload is decoded a second time; the first Result is kept.
WhitelistAgain ==
    /\ ty = "whitelist"
    /\ pc = "done"
    /\ first.tag = "none"
    /\ first' = result
    /\ result' = [tag |-> "none"]
    /\ pos' = 0
    /\ map' = <<>>
    /\ users' = <<>>
    /\ pc' = "deserialize_whitelist"
    /\ UNCHANGED <<kind, modifier, last, calls, input, lights, last_scan>>
    /\ UNCHANGED <<ty, entity, encoded>>

NextWhitelist ==
    \/ WhitelistInsert
    \/ WhitelistPush
    \/ WhitelistReturn
    \/ WhitelistAgain

SpecWhitelist == InitWhitelist /\ [][NextWhitelist]_vars

\* Either decoder of a keyed collection: the scan result or the whitelist.
InitDecode == InitScan \/ InitWhitelist

NextDecode ==
    \/ NextScan
    \/ NextWhitelist

SpecDecode == InitDecode /\ [][NextDecode]_vars

----------------------------------------------------------------------------
(* Properties of the collection decoders *)

Keys(inp) == {inp[i].key : i \in 1 .. Len(inp)}

\* The index of the last entry of inp under key k.
LastUnder(inp, k) ==
    CHOOSE i \in 1 .. Len(inp) :
        inp[i].key = k /\ \A j \in (i + 1) .. Len(inp) : inp[j].key # k

\* C14: decoding the whitelist gives exactly one User per key of the input
\* object; the id of each User is its key, and its name, last_use_date and
\* create_date are those of the payload stored under that key.
C14_IdsFromKeys ==
    (ty = "whitelist" /\ pc = "done" /\ result.tag = "Ok") =>
        LET us == result.value
        IN  /\ Len(us) = Cardinality(Keys(input))
            /\ {us[i].id : i \in 1 .. Len(us)} = Keys(input)
            /\ \A i \in 1 .. Len(us) :
                    LET payload == input[LastUnder(input, us[i].id)].value
                    IN  /\ us[i].name = payload["name"].s
                        /\ us[i].last_use_date = Instant(Chars(payload["last use date"].s))
                        /\ us[i].create_date = Instant(Chars(payload["create date"].s))

\* {"u1": {name "a", ..}, "u2": {name "b", ..}} is decoded to two users.
C14_Witness ==
    /\ ty = "whitelist"
    /\ pc = "done"
    /\ result.tag = "Ok"
    /\ Len(input) = 2
    /\ input[1].key = "u1"
    /\ input[2].key = "u2"
    /\ \E i, j \in 1 .. Len(result.value) :
            /\ result.value[i].id = "u1" /\ result.value[i].name = "a"
            /\ result.value[j].id = "u2" /\ result.value[j].name = "b"
            /\ result.value[j].create_date = <<2020, 1, 2, 3, 4, 5>>

\* The keys of inp in the order in which each is first met.
RECURSIVE EncounterOrder(_, _)
EncounterOrder(inp, seen) ==
    IF inp = <<>> THEN <<>>
    ELSE IF Head(inp).key \in seen THEN EncounterOrder(Tail(inp), seen)
         ELSE <<Head(inp).key>> \o EncounterOrder(Tail(inp), seen \cup {Head(inp).key})

\* C15: the users returned by deserialize_whitelist are in the order in which
\* their keys are met in the payload, and decoding the same payload a second
\* time gives the same sequence.
C15_EncounterOrder ==
    (ty = "whitelist" /\ pc = "done" /\ result.tag = "Ok") =>
        /\ Ids(result.value) = EncounterOrder(input, {})
        /\ first.tag = "Ok" => result.value = first.value

\* Some member of the collection fails to decode.
MemberFails ==
    IF ty = "whitelist"
    THEN \E i \in 1 .. Len(input) : Struct_deserialize("User", input[i].value).tag = "Err"
    ELSE \E i \in 1 .. Len(input) :
            IF input[i].key = "lastscan"
            THEN Option_LastScan_from_value(input[i].value).tag = "Err"
            ELSE String_deserialize(input[i].value).tag = "Err"

\* C16: all or nothing.  When any whitelist entry, or any dynamic-ID value or
\* the lastscan value of a scan result, fails to decode, the decoder returns
\* an error and no list of the entries that are well-formed.
C16_AllOrNothing ==
    (pc = "done" /\ MemberFails) =>
        /\ result.tag = "Err"
        /\ result.value = <<>>

\* A well-formed entry was put into the map before a later entry failed.
C16_Witness ==
    /\ ty = "whitelist"
    /\ pc = "done"
    /\ pos = 1
    /\ DOMAIN map = {"u1"}
    /\ Len(input) = 3
    /\ result = Err("missing field")

\* A scan result whose second light has no string as its name.
C16_WitnessScan ==
    /\ ty = ""
    /\ pc = "done"
    /\ Len(lights) = 1
    /\ last_scan # None
    /\ result = Err("invalid type")

----------------------------------------------------------------------------
(* The enumerated wire types and their codecs *)

\* A token is written as the sequence of its characters.  A variant of an
\* enum is its Rust name, the name a #[serde(rename)] gives it (<<>> without
\* one) and, for an enum with #[repr(u8)], its discriminant.
Variant(name, rename, repr) == [name |-> name, rename |-> rename, repr |-> repr]

\* enum Alert
Alert ==
    {Variant(<<"S", "e", "l", "e", "c", "t">>, <<>>, 0),
     Variant(<<"L", "S", "e", "l", "e", "c", "t">>, <<>>, 0),
     Variant(<<"N", "o", "n", "e">>, <<>>, 0)}

\* enum Effect
Effect ==
    {Variant(<<"C", "o", "l", "o", "r", "l", "o", "o", "p">>, <<>>, 0),
     Variant(<<"N", "o", "n", "e">>, <<>>, 0)}

\* enum ColorMode
ColorMode ==
    {Variant(<<"C", "o", "l", "o", "r", "T", "e", "m", "p", "e", "r", "a", "t", "u", "r", "e">>, <<"c", "t">>, 0),
     Variant(<<"H", "u", "e", "A", "n", "d", "S", "a", "t", "u", "r", "a", "t", "i", "o", "n">>, <<"h", "s">>, 0),
     Variant(<<"C", "o", "l", "o", "r", "S", "p", "a", "c", "e", "C", "o", "o", "r", "d", "i", "n", "a", "t", "e", "s">>, <<"x", "y">>, 0)}

\* enum ActionRequestType
ActionRequestType ==
    {Variant(<<"P", "u", "t">>, <<>>, 0),
     Variant(<<"P", "o", "s", "t">>, <<>>, 0),
     Variant(<<"D", "e", "l", "e", "t", "e">>, <<>>, 0)}

\* enum light::SoftwareUpdateState
light_SoftwareUpdateState ==
    {Variant(<<"N", "o", "U", "p", "d", "a", "t", "e", "s">>, <<>>, 0),
     Variant(<<"N", "o", "t", "U", "p", "d", "a", "t", "a", "b", "l", "e">>, <<>>, 0)}

\* enum config::SoftwareUpdateState
config_SoftwareUpdateState ==
    {Variant(<<"U", "n", "k", "o", "w", "n">>, <<>>, 0),
     Variant(<<"N", "o", "U", "p", "d", "a", "t", "e", "s">>, <<>>, 0),
     Variant(<<"T", "r", "a", "n", "s", "f", "e", "r", "r", "i", "n", "g">>, <<>>, 0),
     Variant(<<"A", "n", "y", "R", "e", "a", "d", "y", "T", "o", "I", "n", "s", "t", "a", "l", "l">>, <<>>, 0),
     Variant(<<"A", "l", "l", "R", "e", "a", "d", "y", "T", "o", "I", "n", "s", "t", "a", "l", "l">>, <<>>, 0),
     Variant(<<"I", "n", "s", "t", "a", "l", "l", "i", "n", "g">>, <<>>, 0)}

\* enum ServiceStatus
ServiceStatus ==
    {Variant(<<"C", "o", "n", "n", "e", "c", "t", "e", "d">>, <<>>, 0),
     Variant(<<"D", "i", "s", "c", "o", "n", "n", "e", "c", "t", "e", "d">>, <<>>, 0)}

\* enum BackupStatus
BackupStatus ==
    {Variant(<<"I", "d", "l", "e">>, <<"i", "d", "l", "e">>, 0),
     Variant(<<"S", "t", "a", "r", "t", "M", "i", "g", "r", "a", "t", "i", "o", "n">>, <<"s", "t", "a", "r", "t", "m", "i", "g", "r", "a", "t", "i", "o", "n">>, 0),
     Variant(<<"F", "i", "l", "e", "r", "e", "a", "d", "y", "D", "i", "s", "a", "b", "l", "e", "d">>, <<"f", "i", "l", "e", "r", "e", "a", "d", "y", "_", "d", "i", "s", "a", "b", "l", "e", "d">>, 0),
     Variant(<<"P", "r", "e", "p", "a", "r", "e", "R", "e", "s", "t", "o", "r", "e">>, <<"p", "r", "e", "p", "a", "r", "e", "_", "r", "e", "s", "t", "o", "r", "e">>, 0),
     Variant(<<"R", "e", "s", "t", "o", "r", "i", "n", "g">>, <<"r", "e", "s", "t", "o", "r", "i", "n", "g">>, 0)}

\* enum BackupError
BackupError ==
    {Variant(<<"N", "o", "n", "e">>, <<>>, 0),
     Variant(<<"E", "x", "p", "o", "r", "t", "F", "a", "i", "l", "e", "d">>, <<>>, 1),
     Variant(<<"I", "m", "p", "o", "r", "t", "F", "a", "i", "l", "e", "d">>, <<>>, 2)}

StringEnums ==
    {"Alert", "Effect", "ColorMode", "ActionRequestType", "light::SoftwareUpdateState",
     "config::SoftwareUpdateState", "ServiceStatus", "BackupStatus"}

EnumTypes == StringEnums \cup {"BackupError"}

\* The enums that derive Serialize as well as Deserialize.
SerializedEnums == {"Alert", "Effect", "ActionRequestType"}

Variants(t) ==
    CASE t = "Alert"                       -> Alert
      [] t = "Effect"                      -> Effect
      [] t = "ColorMode"                   -> ColorMode
      [] t = "ActionRequestType"           -> ActionRequestType
      [] t = "light::SoftwareUpdateState"  -> light_SoftwareUpdateState
      [] t = "config::SoftwareUpdateState" -> config_SoftwareUpdateState
      [] t = "ServiceStatus"               -> ServiceStatus
      [] t = "BackupStatus"                -> BackupStatus
      [] t = "BackupError"                 -> BackupError

\* #[serde(rename_all = "...")] of the enum ("" without one).
RenameAll(t) ==
    CASE t \in {"Alert", "Effect", "light::SoftwareUpdateState",
                "config::SoftwareUpdateState", "ServiceStatus"} -> "lowercase"
      [] t = "ActionRequestType" -> "UPPERCASE"
      [] OTHER -> ""

LowerCaseLetters == <<"a", "b", "c", "d", "e", "f", "g", "h", "i", "j", "k", "l", "m", "n", "o", "p", "q", "r", "s", "t", "u", "v", "w", "x", "y", "z">>
UpperCaseLetters == <<"A", "B", "C", "D", "E", "F", "G", "H", "I", "J", "K", "L", "M", "N", "O", "P", "Q", "R", "S", "T", "U", "V", "W", "X", "Y", "Z">>

\* char::to_ascii_lowercase / to_ascii_uppercase
ToAsciiLowercase(c) ==
    IF \E i \in 1 .. 26 : UpperCaseLetters[i] = c
    THEN LowerCaseLetters[CHOOSE i \in 1 .. 26 : UpperCaseLetters[i] = c]
    ELSE c

ToAsciiUppercase(c) ==
    IF \E i \in 1 .. 26 : LowerCaseLetters[i] = c
    THEN UpperCaseLetters[CHOOSE i \in 1 .. 26 : LowerCaseLetters[i] = c]
    ELSE c

\* The name of every variant used as it is written, rename attributes left out.
WireTokenVerbatim(t, v) == v.name

\* The name serde gives a variant on the wire: its #[serde(rename)] if it has
\* one, else its Rust name under the enum's rename_all rule.
WireToken(t, v) ==
    IF v.rename # <<>> THEN v.rename
    ELSE CASE RenameAll(t) = "lowercase" ->
                [i \in 1 .. Len(v.name) |-> ToAsciiLowercase(v.name[i])]
           [] RenameAll(t) = "UPPERCASE" ->
                [i \in 1 .. Len(v.name) |-> ToAsciiUppercase(v.name[i])]
           [] OTHER -> v.name

\* A JSON string with the characters cs, and a JSON integer n.
Token(chars) == [t |-> "string", cs |-> chars, n |-> 0]
Number(n) == [t |-> "number", cs |-> <<>>, n |-> n]

\* Decoding with the token matched without regard to letter case.
Enum_deserialize_caseless(t, v) ==
    IF t = "BackupError"
    THEN IF v.t # "number" THEN Err("invalid type")
         ELSE IF \E x \in Variants(t) : x.repr = v.n % 256
              THEN Ok((CHOOSE x \in Variants(t) : x.repr = v.n % 256).name)
              ELSE Err("unknown value")
    ELSE IF v.t # "string" THEN Err("invalid type")
         ELSE LET low(w) == [i \in 1 .. Len(w) |-> ToAsciiLowercase(w[i])]
                  hit == {x \in Variants(t) : low(WireToken(t, x)) = low(v.cs)}
              IN  IF hit # {} THEN Ok((CHOOSE x \in hit : TRUE).name)
                  ELSE Err("unknown variant")

\* #[derive(Deserialize)] of an enum of unit variants, from a JSON value: a
\* string that is the wire name of a variant gives that variant, any other
\* string is the unknown-variant error.  #[derive(Deserialize_repr)] with
\* #[repr(u8)]: the value is decoded as a u8 and matched against the
\* discriminants; no match is an error.  The variant is given by its name.
Enum_deserialize(t, v) ==
    IF t = "BackupError"
    THEN IF v.t # "number" THEN Err("invalid type")
         ELSE IF v.n < 0 \/ v.n > 255 THEN Err("invalid value")
         ELSE IF \E x \in Variants(t) : x.repr = v.n
              THEN Ok((CHOOSE x \in Variants(t) : x.repr = v.n).name)
              ELSE Err("unknown value")
    ELSE IF v.t # "string" THEN Err("invalid type")
         ELSE LET hit == {x \in Variants(t) : WireToken(t, x) = v.cs}
              IN  IF hit # {} THEN Ok((CHOOSE x \in hit : TRUE).name)
                  ELSE Err("unknown variant")

\* #[derive(Serialize)] of an enum of unit variants: the variant's wire name.
Enum_serialize(t, name) == WireToken(t, CHOOSE x \in Variants(t) : x.name = name)

\* The tokens each string enum has on the wire.
FixedTokens(t) ==
    CASE t = "Alert" ->
            {<<"s", "e", "l", "e", "c", "t">>,
             <<"l", "s", "e", "l", "e", "c", "t">>,
             <<"n", "o", "n", "e">>}
      [] t = "Effect" ->
            {<<"c", "o", "l", "o", "r", "l", "o", "o", "p">>,
             <<"n", "o", "n", "e">>}
      [] t = "ColorMode" ->
            {<<"c", "t">>,
             <<"h", "s">>,
             <<"x", "y">>}
      [] t = "ActionRequestType" ->
            {<<"P", "U", "T">>,
             <<"P", "O", "S", "T">>,
             <<"D", "E", "L", "E", "T", "E">>}
      [] t = "light::SoftwareUpdateState" ->
            {<<"n", "o", "u", "p", "d", "a", "t", "e", "s">>,
             <<"n", "o", "t", "u", "p", "d", "a", "t", "a", "b", "l", "e">>}
      [] t = "config::SoftwareUpdateState" ->
            {<<"u", "n", "k", "o", "w", "n">>,
             <<"n", "o", "u", "p", "d", "a", "t", "e", "s">>,
             <<"t", "r", "a", "n", "s", "f", "e", "r", "r", "i", "n", "g">>,
             <<"a", "n", "y", "r", "e", "a", "d", "y", "t", "o", "i", "n", "s", "t", "a", "l", "l">>,
             <<"a", "l", "l", "r", "e", "a", "d", "y", "t", "o", "i", "n", "s", "t", "a", "l", "l">>,
             <<"i", "n", "s", "t", "a", "l", "l", "i", "n", "g">>}
      [] t = "ServiceStatus" ->
            {<<"c", "o", "n", "n", "e", "c", "t", "e", "d">>,
             <<"d", "i", "s", "c", "o", "n", "n", "e", "c", "t", "e", "d">>}
      [] t = "BackupStatus" ->
            {<<"i", "d", "l", "e">>,
             <<"s", "t", "a", "r", "t", "m", "i", "g", "r", "a", "t", "i", "o", "n">>,
             <<"f", "i", "l", "e", "r", "e", "a", "d", "y", "_", "d", "i", "s", "a", "b", "l", "e", "d">>,
             <<"p", "r", "e", "p", "a", "r", "e", "_", "r", "e", "s", "t", "o", "r", "e">>,
             <<"r", "e", "s", "t", "o", "r", "i", "n", "g">>}

\* Sample tokens that are those of no enum: tokens in another letter case,
\* Rust names of variants, a correctly spelt "unknown", an unrelated word, the
\* empty string and digits.
ForeignTokens ==
    {<<"S", "e", "l", "e", "c", "t">>,
     <<"S", "E", "L", "E", "C", "T">>,
     <<"L", "S", "e", "l", "e", "c", "t">>,
     <<"N", "o", "n", "e">>,
     <<"N", "O", "N", "E">>,
     <<"C", "o", "l", "o", "r", "l", "o", "o", "p">>,
     <<"p", "u", "t">>,
     <<"P", "u", "t">>,
     <<"d", "e", "l", "e", "t", "e">>,
     <<"C", "T">>,
     <<"C", "t">>,
     <<"C", "o", "l", "o", "r", "T", "e", "m", "p", "e", "r", "a", "t", "u", "r", "e">>,
     <<"N", "o", "U", "p", "d", "a", "t", "e", "s">>,
     <<"u", "n", "k", "n", "o", "w", "n">>,
     <<"U", "n", "k", "o", "w", "n">>,
     <<"C", "o", "n", "n", "e", "c", "t", "e", "d">>,
     <<"I", "D", "L", "E">>,
     <<"I", "d", "l", "e">>,
     <<"S", "t", "a", "r", "t", "M", "i", "g", "r", "a", "t", "i", "o", "n">>,
     <<"b", "l", "i", "n", "k">>,
     <<>>,
     <<"0">>,
     <<"1">>}

\* Sample integers: the codes of BackupError and values around them and
\* around the range of u8.
SampleNumbers == {-1, 0, 1, 2, 3, 255, 256, 258}

EnumInputs ==
    {Token(c) : c \in UNION {FixedTokens(t) : t \in StringEnums} \cup ForeignTokens}
        \cup {Number(n) : n \in SampleNumbers}

InitEnum ==
    /\ ChainIdle
    /\ ScanLocalsIdle
    /\ ty \in EnumTypes
    /\ input \in EnumInputs
    /\ entity = <<>>
    /\ map = <<>>
    /\ users = <<>>
    /\ first = [tag |-> "none"]
    /\ encoded = None
    /\ result = [tag |-> "none"]
    /\ pc = "deserialize"

\* The JSON value is decoded to the enum.
EnumDeserialize ==
    /\ pc = "deserialize"
    /\ result' = Enum_deserialize(ty, input)
    /\ pc' = "decoded"
    /\ UNCHANGED <<kind, modifier, last, calls, input, pos, lights, last_scan>>
    /\ UNCHANGED decVars

\* The decoded variant is serialized.
EnumSerialize ==
    /\ pc = "decoded"
    /\ result.tag = "Ok"
    /\ ty \in SerializedEnums
    /\ encoded' = Some(Enum_serialize(ty, result.value))
    /\ pc' = "encoded"
    /\ UNCHANGED <<kind, modifier, last, calls, input, pos, lights, last_scan, result>>
    /\ UNCHANGED <<ty, entity, map, users, first>>

NextEnum ==
    \/ EnumDeserialize
    \/ EnumSerialize

SpecEnum == InitEnum /\ [][NextEnum]_vars

----------------------------------------------------------------------------
(* Properties of the enum codecs *)

\* The tokens documented for the enums that are decoded and encoded.
Documented(t) ==
    CASE t = "Alert"  -> {<<"s", "e", "l", "e", "c", "t">>, <<"l", "s", "e", "l", "e", "c", "t">>, <<"n", "o", "n", "e">>}
      [] t = "Effect" -> {<<"c", "o", "l", "o", "r", "l", "o", "o", "p">>, <<"n", "o", "n", "e">>}
      [] t = "ActionRequestType" -> {<<"P", "U", "T">>, <<"P", "O", "S", "T">>, <<"D", "E", "L", "E", "T", "E">>}

\* C18: round trip of the enumerated types.  For Alert, Effect and
\* ActionRequestType, decoding a documented token and encoding the result
\* gives the same token, and different tokens of one type decode to different
\* variants.
C18_EnumRoundTrip ==
    /\ (ty \in SerializedEnums /\ input.t = "string" /\ input.cs \in Documented(ty)) =>
            /\ pc # "deserialize" => result.tag = "Ok"
            /\ pc = "encoded" => encoded = Some(input.cs)
    /\ \A t \in SerializedEnums : \A a, b \in Documented(t) :
            a # b => /\ Enum_deserialize(t, Token(a)).tag = "Ok"
                     /\ Enum_deserialize(t, Token(b)).tag = "Ok"
                     /\ Enum_deserialize(t, Token(a)).value # Enum_deserialize(t, Token(b)).value

\* "lselect" is decoded to LSelect and encoded to "lselect" again.
C18_Witness ==
    /\ ty = "Alert"
    /\ input = Token(<<"l", "s", "e", "l", "e", "c", "t">>)
    /\ pc = "encoded"
    /\ result = Ok(<<"L", "S", "e", "l", "e", "c", "t">>)
    /\ encoded = Some(<<"l", "s", "e", "l", "e", "c", "t">>)

\* The input is outside the fixed set of the type decoded to.
Unknown(t, v) ==
    IF t = "BackupError" THEN ~(v.t = "number" /\ v.n \in {0, 1, 2})
    ELSE ~(v.t = "string" /\ v.cs \in FixedTokens(t))

\* C19: closed enumerations reject unknown input.  For every enum on the wire,
\* a token outside the type's fixed set (a token of the set in another letter
\* case among them), and for BackupError an integer other than 0, 1, 2, is a
\* decode error and never a variant chosen in its place; the tokens of the set
\* are decoded.
C19_UnknownTokensRejected ==
    pc # "deserialize" =>
        IF Unknown(ty, input) THEN result.tag = "Err" ELSE result.tag = "Ok"

\* "Select" is no token of Alert.
C19_Witness ==
    /\ ty = "Alert"
    /\ input = Token(<<"S", "e", "l", "e", "c", "t">>)
    /\ pc = "decoded"
    /\ result = Err("unknown variant")

\* 3 is no code of BackupError.
C19_WitnessCode ==
    /\ ty = "BackupError"
    /\ input = Number(3)
    /\ pc = "decoded"
    /\ result.tag = "Err"

=============================================================================
